---- MODULE Spec2Model ----
(***************************************************************************)
(* Model of the firmware-image streaming loader of system_test_hw_0_bsp.c: *)
(* bsp_dut_boot() drives the fw_img container parser over an image that is *)
(* handed out in fixed-size chunks, forwards every decoded block to        *)
(* cs40l25_write_block() and finally passes the descriptor to              *)
(* cs40l25_boot().                                                         *)
(*                                                                         *)
(* The image is a sequence of cells.  One cell stands for one field of the *)
(* container (the byte widths of the real format are not part of the       *)
(* design); offsets, sizes and lengths count cells.                        *)
(***************************************************************************)
EXTENDS Integers, Sequences, FiniteSets, TLC

(***************************************************************************)
(* Bounds of the model.                                                    *)
(***************************************************************************)
\* Standard chunk size ("write_size = 1024" in bsp_dut_boot), scaled to cells.
ChunkSize == 6
\* Number of bsp_dut_boot calls in one behaviour.
MaxAttempts == 2
\* Largest chunk the free-running chunk feeder of SpecFeed supplies.
MaxFeed == 3

(***************************************************************************)
(* Program constants.                                                      *)
(***************************************************************************)
\* block_data_size of a format-revision-1 image.
LegacyBlockSize == 4140

NULL == -1

FW_IMG_STATUS_OK == "OK"
FW_IMG_STATUS_FAIL == "FAIL"
FW_IMG_STATUS_NODATA == "NODATA"
FW_IMG_STATUS_DATA_READY == "DATA_READY"

CS40L25_STATUS_OK == "OK"
CS40L25_STATUS_FAIL == "FAIL"
BSP_STATUS_OK == "OK"
BSP_STATUS_FAIL == "FAIL"

(***************************************************************************)
(* Firmware containers.                                                    *)
(*   preheader{format_revision}                                            *)
(*   header{sym_table_size, alg_id_list_size, max_block_size (rev >= 2)}   *)
(*   symbol_table[sym_table_size], alg_id_list[alg_id_list_size]           *)
(*   block{address, length, payload[length]} ...                           *)
(***************************************************************************)
Payload(addr, len) == [i \in 1..len |-> 10 * addr + i]

BlockCells(b) == <<b[1], b[2]>> \o Payload(b[1], b[2])

RECURSIVE BlocksCells(_)
BlocksCells(bl) ==
    IF bl = <<>> THEN <<>> ELSE BlockCells(Head(bl)) \o BlocksCells(Tail(bl))

SymCells(n) == [i \in 1..n |-> 20 + i]
AlgCells(n) == [i \in 1..n |-> 30 + i]

HeaderCells(rev, sym, alg, mbs) ==
    IF rev >= 2 THEN <<rev, sym, alg, mbs>> ELSE <<rev, sym, alg>>

Container(rev, sym, alg, mbs, bl) ==
    HeaderCells(rev, sym, alg, mbs) \o SymCells(sym) \o AlgCells(alg) \o BlocksCells(bl)

\* What a container holds, block by block: the expected write_block calls.
BlockList(bl) == [i \in 1..Len(bl) |-> [addr |-> bl[i][1], data |-> Payload(bl[i][1], bl[i][2])]]

\* max_block_size written into the header of the revision-2 containers.
MaxBlockSize == 2

B1 == <<1, 1>>
B2 == <<2, 2>>
B3 == <<3, 3>>

BlockLists == { <<>>, <<B1>>, <<B2>>, <<B1, B2>>, <<B2, B1>>, <<B3>>, <<B1, B3>> }

Shapes == { <<1, 1>>, <<2, 1>> }

Capacity(rev) == IF rev = 1 THEN LegacyBlockSize ELSE MaxBlockSize

\* An image as the build holds it: mem is the array followed by what lies
\* behind it in memory, size is FW_IMG_SIZE(array).  What lies behind the
\* array is read only when a chunk reaches past the array; it is either the
\* rest of the container or zeroes (Mem below).
Image(rev, sh, bl, size, mem) ==
    [ mem |-> mem, size |-> size, data_blocks |-> Len(bl),
      rev |-> rev, blocks |-> BlockList(bl),
      syms |-> SymCells(sh[1]), algs |-> AlgCells(sh[2]),
      complete |-> size = Len(Container(rev, sh[1], sh[2], MaxBlockSize, bl)),
      fits |-> \A i \in 1..Len(bl) : bl[i][2] <= Capacity(rev) ]

WholeImages ==
    { Image(rev, sh, bl, Len(Container(rev, sh[1], sh[2], MaxBlockSize, bl)),
            Container(rev, sh[1], sh[2], MaxBlockSize, bl)) :
        rev \in {1, 2}, sh \in Shapes, bl \in BlockLists }

\* Images cut short: the array ends before the container does.
TruncatedImages ==
    UNION { LET c == Container(rev, 1, 1, MaxBlockSize, <<B1, B2>>) IN
            UNION { { Image(rev, <<1, 1>>, <<B1, B2>>, k, m) : m \in {c, SubSeq(c, 1, k)} }
                    : k \in 0..(Len(c) - 1) }
          : rev \in {1, 2} }

\* A container whose format revision is not recognised.
MalformedImages ==
    { Image(0, <<1, 1>>, <<B1>>, 7, <<0, 1, 1, 21, 31>> \o BlockCells(B1)) }

\* Images with room to spare: the array is longer than the container it
\* holds, the rest is zero.  The container ends in the first chunk and the
\* array reaches into the third.
Padding(c) == [i \in 1..(2 * ChunkSize + 2 - Len(c)) |-> 0]

PaddedImages ==
    { LET c == Container(rev, 1, 1, MaxBlockSize, bl)
      IN  Image(rev, <<1, 1>>, bl, Len(c) + Len(Padding(c)), c \o Padding(c)) :
        rev \in {1, 2}, bl \in {<<>>, <<B1>>} }

Images == WholeImages \cup TruncatedImages \cup MalformedImages \cup PaddedImages

WellFormed(im) == im.complete /\ im.fits /\ im.rev \in {1, 2}

(***************************************************************************)
(* fw_img_boot_state_t.  Pointers into the image are cell offsets, heap    *)
(* pointers are allocation ids, NULL is the null pointer.  state, count    *)
(* and fw_img_blocks_end are the parser's own cursor; the driver sets only *)
(* fw_img_blocks and fw_img_blocks_size.                                   *)
(***************************************************************************)
ZeroBootState ==
    [ fw_img_blocks |-> NULL, fw_img_blocks_size |-> 0, fw_img_blocks_end |-> NULL,
      state |-> "preheader", count |-> 0, blocks_done |-> 0,
      img_format_rev |-> 0, sym_table_size |-> 0, alg_id_list_size |-> 0,
      max_block_size |-> 0,
      sym_table |-> NULL, alg_id_list |-> NULL,
      block_addr |-> 0, block_size |-> 0,
      block_data |-> NULL, block_data_size |-> 0 ]

\* The cell at offset i of the image memory; zero behind what the model holds.
Mem(m, i) == IF i >= 0 /\ i < Len(m) THEN m[i + 1] ELSE 0

\* The heap maps each live allocation id to [size, cells]: cells holds the
\* cells stored so far, by index from 0 (what bsp_malloc returns is not
\* initialised).  A store of cell c at index i of the buffer p:
InBuffer(h, p, i) == p \in DOMAIN h /\ i >= 0 /\ i < h[p].size
Store(h, p, i, c) ==
    IF InBuffer(h, p, i) THEN [h EXCEPT ![p].cells = (i :> c) @@ @] ELSE h

\* The end of the chunk the caller supplied: fixed when the parser first
\* sees the chunk, forgotten when it has reported NODATA for it.
OpenChunk(bs) ==
    IF bs.fw_img_blocks_end = NULL
    THEN [bs EXCEPT !.fw_img_blocks_end = bs.fw_img_blocks + bs.fw_img_blocks_size]
    ELSE bs

\* A parser that does not look at the end of the chunk.
HasDataAlways(bs) == TRUE

\* Whether a cell of the current chunk is left to read.
HasData(bs) == bs.fw_img_blocks < bs.fw_img_blocks_end

\* A parser that starts the structure it was reading afresh after NODATA.
NoDataRestart(bs) == [bs EXCEPT !.fw_img_blocks_end = NULL, !.count = 0]

\* The chunk is used up: NODATA is reported, the place within the structure
\* being read (state, count) is kept.
NoData(bs) == [bs EXCEPT !.fw_img_blocks_end = NULL]

HeaderFields(rev) == IF rev >= 2 THEN 3 ELSE 2

SetHeaderField(bs, c) ==
    IF bs.count = 0 THEN [bs EXCEPT !.sym_table_size = c, !.count = 1]
    ELSE IF bs.count = 1 THEN [bs EXCEPT !.alg_id_list_size = c, !.count = 2]
    ELSE [bs EXCEPT !.max_block_size = c, !.count = 3]

\* Preheader and header, resumable: [bs, ret].
RECURSIVE HeaderLoop(_, _)
HeaderLoop(m, bs) ==
    IF bs.state = "header" /\ bs.count = HeaderFields(bs.img_format_rev)
    THEN [bs |-> [bs EXCEPT !.state = "symbols", !.count = 0], ret |-> FW_IMG_STATUS_OK]
    ELSE IF ~HasData(bs)
    THEN [bs |-> NoData(bs), ret |-> FW_IMG_STATUS_NODATA]
    ELSE LET c == Mem(m, bs.fw_img_blocks)
             adv == [bs EXCEPT !.fw_img_blocks = @ + 1]
         IN  IF bs.state = "preheader"
             THEN IF c >= 1
                  THEN HeaderLoop(m, [adv EXCEPT !.img_format_rev = c,
                                                 !.state = "header", !.count = 0])
                  ELSE [bs |-> adv, ret |-> FW_IMG_STATUS_FAIL]
             ELSE HeaderLoop(m, SetHeaderField(adv, c))

fw_img_read_header(m, bs) ==
    IF bs.fw_img_blocks = NULL \/ bs.state \notin {"preheader", "header"}
    THEN [bs |-> bs, ret |-> FW_IMG_STATUS_FAIL]
    ELSE HeaderLoop(m, OpenChunk(bs))

\* Symbol table, algorithm-ID list and data blocks, resumable:
\* [bs, heap, ret, overrun]; overrun records a store outside its buffer.
RECURSIVE ProcessLoop(_, _, _, _, _)
ProcessLoop(m, nblk, bs, h, ovr) ==
    LET c == Mem(m, bs.fw_img_blocks)
        adv == [bs EXCEPT !.fw_img_blocks = @ + 1, !.count = @ + 1]
        out(b, r) == [bs |-> b, heap |-> h, ret |-> r, overrun |-> ovr]
    IN
    CASE bs.state = "symbols" ->
           IF bs.count = bs.sym_table_size
           THEN ProcessLoop(m, nblk, [bs EXCEPT !.state = "algs", !.count = 0], h, ovr)
           ELSE IF ~HasData(bs) THEN out(NoData(bs), FW_IMG_STATUS_NODATA)
           ELSE ProcessLoop(m, nblk, adv, Store(h, bs.sym_table, bs.count, c),
                            ovr \/ ~InBuffer(h, bs.sym_table, bs.count))
      [] bs.state = "algs" ->
           IF bs.count = bs.alg_id_list_size
           THEN ProcessLoop(m, nblk, [bs EXCEPT !.state = "block_hdr", !.count = 0], h, ovr)
           ELSE IF ~HasData(bs) THEN out(NoData(bs), FW_IMG_STATUS_NODATA)
           ELSE ProcessLoop(m, nblk, adv, Store(h, bs.alg_id_list, bs.count, c),
                            ovr \/ ~InBuffer(h, bs.alg_id_list, bs.count))
      [] bs.state = "block_hdr" ->
           IF bs.count = 0 /\ bs.blocks_done = nblk
           THEN out([bs EXCEPT !.state = "done"], FW_IMG_STATUS_OK)
           ELSE IF bs.count = 2
           THEN IF bs.block_size > bs.block_data_size
                THEN out(bs, FW_IMG_STATUS_FAIL)
                ELSE ProcessLoop(m, nblk, [bs EXCEPT !.state = "block_data", !.count = 0],
                                 h, ovr)
           ELSE IF ~HasData(bs) THEN out(NoData(bs), FW_IMG_STATUS_NODATA)
           ELSE IF bs.count = 0
           THEN ProcessLoop(m, nblk, [adv EXCEPT !.block_addr = c], h, ovr)
           ELSE ProcessLoop(m, nblk, [adv EXCEPT !.block_size = c], h, ovr)
      [] bs.state = "block_data" ->
           IF bs.count = bs.block_size
           THEN out([bs EXCEPT !.state = "block_hdr", !.count = 0,
                               !.blocks_done = @ + 1], FW_IMG_STATUS_DATA_READY)
           ELSE IF ~HasData(bs) THEN out(NoData(bs), FW_IMG_STATUS_NODATA)
           ELSE ProcessLoop(m, nblk, adv, Store(h, bs.block_data, bs.count, c),
                            ovr \/ ~InBuffer(h, bs.block_data, bs.count))
      [] bs.state = "done" -> out(bs, FW_IMG_STATUS_OK)
      [] OTHER -> out(bs, FW_IMG_STATUS_FAIL)

fw_img_process(m, nblk, bs, h) ==
    IF bs.fw_img_blocks = NULL
    THEN [bs |-> bs, heap |-> h, ret |-> FW_IMG_STATUS_FAIL, overrun |-> FALSE]
    ELSE ProcessLoop(m, nblk, OpenChunk(bs), h, FALSE)


(***************************************************************************)
(* State.                                                                  *)
(*   pc          where bsp_dut_boot stands ("idle" before the first call,  *)
(*               "returned" after a return)                                *)
(*   image       the image of the current call (cs40l25_fw_img or          *)
(*               cs40l25_cal_fw_img)                                       *)
(*   boot_state  the static fw_img_boot_state_t                            *)
(*   heap        the live bsp_malloc allocations, next_id the next id      *)
(*   fw_img, fw_img_end, write_size, ret   the locals of bsp_dut_boot      *)
(*   chunk       <<start, size>> last written to boot_state.fw_img_blocks  *)
(*               and fw_img_blocks_size by the driver                      *)
(*   attempts    number of bsp_dut_boot calls so far                       *)
(*   trace       the calls the current bsp_dut_boot has made, in order     *)
(*   outcomes    what the earlier bsp_dut_boot calls returned, in order    *)
(*   driver_fw_info          cs40l25_driver's pointer to the descriptor    *)
(*   current_halo_heartbeat  the static of that name                       *)
(*   has_processed           the caller's bool bsp_dut_has_processed sets  *)
(***************************************************************************)
VARIABLES pc, image, boot_state, heap, next_id, fw_img, fw_img_end, write_size,
          ret, chunk, attempts, trace, outcomes,
          driver_fw_info, current_halo_heartbeat, has_processed

vars == <<pc, image, boot_state, heap, next_id, fw_img, fw_img_end, write_size,
          ret, chunk, attempts, trace, outcomes,
          driver_fw_info, current_halo_heartbeat, has_processed>>

\* &boot_state.fw_info, the one descriptor bsp_dut_boot hands to cs40l25_boot.
FwInfoAddr == 0

\* What cs40l25_driver holds after cs40l25_boot(&cs40l25_driver, arg) has
\* returned r when it held old before: the pointer it was given when the call
\* succeeded; after a call that failed, either.
DriverFwInfo(old, arg, r) == IF r = CS40L25_STATUS_OK THEN {arg} ELSE {old, arg}

EmptyHeap == [p \in {} |-> 0]

NoImage == Image(0, <<0, 0>>, <<>>, 0, <<>>)

Init ==
    /\ pc = "idle"
    /\ image = NoImage
    /\ boot_state = ZeroBootState
    /\ heap = EmptyHeap
    /\ next_id = 1
    /\ fw_img = 0
    /\ fw_img_end = 0
    /\ write_size = 0
    /\ ret = BSP_STATUS_OK
    /\ chunk = <<NULL, 0>>
    /\ attempts = 0
    /\ trace = <<>>
    /\ outcomes = <<>>
    /\ driver_fw_info = NULL
    /\ current_halo_heartbeat = 0
    /\ has_processed = FALSE

Return(r) == pc' = "returned" /\ ret' = r

\* bsp_free(p) when p is not NULL.
Free(h, p) == IF p = NULL THEN h ELSE [q \in DOMAIN h \ {p} |-> h[q]]

FreeCalls(bs, h) ==
    LET ev(p) == IF p = NULL THEN <<>> ELSE <<[op |-> "free", ptr |-> p, live |-> p \in DOMAIN h]>>
    IN  ev(bs.sym_table)
        \o (IF bs.alg_id_list = NULL THEN <<>>
            ELSE <<[op |-> "free", ptr |-> bs.alg_id_list,
                    live |-> bs.alg_id_list \in DOMAIN Free(h, bs.sym_table)]>>)
        \o (IF bs.block_data = NULL THEN <<>>
            ELSE <<[op |-> "free", ptr |-> bs.block_data,
                    live |-> bs.block_data \in DOMAIN Free(Free(h, bs.sym_table), bs.alg_id_list)]>>)

\* bsp_malloc(n): a fresh buffer of n cells.
Malloc(h, id, n) == (id :> [size |-> n, cells |-> EmptyHeap]) @@ h

\* The cells of buffer p at indices 0..n-1 (an index never stored reads as 0).
Contents(h, p, n) ==
    [i \in 1..n |-> IF p \in DOMAIN h /\ (i - 1) \in DOMAIN h[p].cells
                    THEN h[p].cells[i - 1] ELSE 0]

(***************************************************************************)
(* bsp_dut_boot, lines 164-181: pick the image and tell the driver that no *)
(* firmware is available.                                                  *)
(***************************************************************************)
\* A boot that discards the previous boot's buffers and state on entry.
NotifyFrameCleaning ==
    /\ boot_state' = ZeroBootState
    /\ heap' = EmptyHeap
    /\ UNCHANGED <<next_id, chunk>>

\* Lines 164-181 touch neither boot_state nor the heap.
NotifyFrame == UNCHANGED <<boot_state, heap, next_id, chunk>>

\* A boot that goes on to the cleanup whatever cs40l25_boot returned.
AfterNotifyUnchecked(r) == pc' = "free"

\* Lines 178-181: a failed notification ends the boot.
AfterNotify(r) == pc' = IF r # CS40L25_STATUS_OK THEN "returned" ELSE "free"

Boot(ims) ==
    /\ pc \in {"idle", "returned"}
    /\ attempts < MaxAttempts
    /\ \E im \in ims, r \in {CS40L25_STATUS_OK, CS40L25_STATUS_FAIL} :
         /\ image' = im
         /\ fw_img' = 0
         /\ fw_img_end' = im.size
         /\ trace' = <<[op |-> "boot", has_fw |-> FALSE, ret |-> r]>>
         /\ ret' = r
         /\ driver_fw_info' \in DriverFwInfo(driver_fw_info, NULL, r)
         /\ AfterNotify(r)
    /\ attempts' = attempts + 1
    \* write_size is a local: it holds nothing until line 195 sets it.
    /\ outcomes' = IF pc = "returned" THEN Append(outcomes, ret) ELSE outcomes
    /\ write_size' = 0
    /\ NotifyFrame
    /\ UNCHANGED <<current_halo_heartbeat, has_processed>>

BootCall == Boot(Images)

(***************************************************************************)
(* Lines 183-199: free what the previous boot allocated, zero boot_state,  *)
(* point it at the first chunk.                                            *)
(***************************************************************************)
FirstChunkSize(size) == ChunkSize

\* A cleanup that forgets the block buffer.
FreeAllButBlockData(h, bs) == Free(Free(h, bs.sym_table), bs.alg_id_list)

\* Lines 183-189.
FreeAll(h, bs) == Free(Free(Free(h, bs.sym_table), bs.alg_id_list), bs.block_data)

\* A boot that leaves boot_state as the previous boot left it.
KeepBootState(bs) == bs

\* Line 192: memset(&boot_state, 0, sizeof(fw_img_boot_state_t)).
ResetBootState(bs) == ZeroBootState

FreePrevious ==
    /\ pc = "free"
    /\ heap' = FreeAll(heap, boot_state)
    /\ write_size' = FirstChunkSize(fw_img_end - fw_img)
    /\ boot_state' = [ResetBootState(boot_state) EXCEPT !.fw_img_blocks = fw_img,
                                                        !.fw_img_blocks_size = write_size']
    /\ chunk' = <<fw_img, write_size'>>
    /\ trace' = (trace \o FreeCalls(boot_state, heap)) \o <<[op |-> "memset"]>>
    /\ pc' = "header"
    /\ UNCHANGED <<image, next_id, fw_img, fw_img_end, ret, attempts, outcomes,
                   driver_fw_info, current_halo_heartbeat, has_processed>>

(***************************************************************************)
(* Lines 201-206: fw_img_read_header.                                      *)
(***************************************************************************)
\* A driver that goes on to the allocations whatever fw_img_read_header said.
AfterReadHeaderUnchecked(rt) == pc' = "alloc_sym" /\ ret' = rt

\* Lines 203-206: any result but FW_IMG_STATUS_OK ends the boot.
AfterReadHeader(rt) ==
    IF rt # FW_IMG_STATUS_OK THEN Return(BSP_STATUS_FAIL)
    ELSE pc' = "alloc_sym" /\ ret' = rt

ReadHeader ==
    /\ pc = "header"
    /\ LET r == fw_img_read_header(image.mem, boot_state) IN
         /\ boot_state' = r.bs
         /\ trace' = Append(trace, [op |-> "read_header", chunk |-> chunk,
                                    from |-> boot_state.fw_img_blocks,
                                    to |-> r.bs.fw_img_blocks, ret |-> r.ret])
         /\ AfterReadHeader(r.ret)
    /\ UNCHANGED <<image, heap, next_id, fw_img, fw_img_end, write_size, chunk, attempts, outcomes,
                   driver_fw_info, current_halo_heartbeat, has_processed>>

(***************************************************************************)
(* Lines 208-241: the three allocations.  bsp_malloc may return NULL.      *)
(***************************************************************************)
\* A block buffer sized from the header field whatever the format revision.
BlockDataSizeFromHeader(bs) == bs.max_block_size

\* Lines 229-236.
BlockDataSize(bs) ==
    IF bs.img_format_rev = 1 THEN LegacyBlockSize ELSE bs.max_block_size

\* A driver that goes on after a NULL from bsp_malloc.
AfterMallocUnchecked(p, next) == pc' = next /\ UNCHANGED ret

\* Lines 212-215, 219-222, 238-241: a NULL from bsp_malloc ends the boot.
AfterMalloc(p, next) ==
    IF p = NULL THEN Return(BSP_STATUS_FAIL) ELSE pc' = next /\ UNCHANGED ret

\* A block buffer allocated one cell short of block_data_size.
BlockDataAllocShort(size) == size - 1

\* Line 237: the block buffer is allocated with block_data_size cells.
BlockDataAlloc(size) == size

AllocSymTable ==
    /\ pc = "alloc_sym"
    /\ \E ok \in BOOLEAN :
         LET p == IF ok THEN next_id ELSE NULL
             n == boot_state.sym_table_size
         IN  /\ boot_state' = [boot_state EXCEPT !.sym_table = p]
             /\ heap' = IF ok THEN Malloc(heap, next_id, n) ELSE heap
             /\ next_id' = IF ok THEN next_id + 1 ELSE next_id
             /\ trace' = Append(trace, [op |-> "malloc", what |-> "sym_table",
                                        size |-> n, ptr |-> p])
             /\ AfterMalloc(p, "alloc_alg")
    /\ UNCHANGED <<image, fw_img, fw_img_end, write_size, chunk, attempts, outcomes,
                   driver_fw_info, current_halo_heartbeat, has_processed>>

AllocAlgIdList ==
    /\ pc = "alloc_alg"
    /\ \E ok \in BOOLEAN :
         LET p == IF ok THEN next_id ELSE NULL
             n == boot_state.alg_id_list_size
         IN  /\ boot_state' = [boot_state EXCEPT !.alg_id_list = p]
             /\ heap' = IF ok THEN Malloc(heap, next_id, n) ELSE heap
             /\ next_id' = IF ok THEN next_id + 1 ELSE next_id
             /\ trace' = Append(trace, [op |-> "malloc", what |-> "alg_id_list",
                                        size |-> n, ptr |-> p])
             /\ AfterMalloc(p, "alloc_blk")
    /\ UNCHANGED <<image, fw_img, fw_img_end, write_size, chunk, attempts, outcomes,
                   driver_fw_info, current_halo_heartbeat, has_processed>>

AllocBlockData ==
    /\ pc = "alloc_blk"
    /\ \E ok \in BOOLEAN :
         LET p == IF ok THEN next_id ELSE NULL
             n == BlockDataSize(boot_state)
         IN  /\ boot_state' = [boot_state EXCEPT !.block_data_size = n, !.block_data = p]
             /\ heap' = IF ok THEN Malloc(heap, next_id, BlockDataAlloc(n)) ELSE heap
             /\ next_id' = IF ok THEN next_id + 1 ELSE next_id
             /\ trace' = Append(trace, [op |-> "malloc", what |-> "block_data",
                                        size |-> n, ptr |-> p])
             /\ AfterMalloc(p, "loop")
    /\ UNCHANGED <<image, fw_img, fw_img_end, write_size, chunk, attempts, outcomes,
                   driver_fw_info, current_halo_heartbeat, has_processed>>

(***************************************************************************)
(* Lines 243-278: one turn of the loop with fw_img < fw_img_end.           *)
(***************************************************************************)
\* (ShrinkOutcomesZero: a driver whose next chunk is always empty.)
\* Lines 270-273.  fw_img_end - fw_img is a ptrdiff_t and write_size a
\* uint32_t: when fw_img has passed fw_img_end the difference is negative and
\* the comparison is unsigned where ptrdiff_t is 32 bits wide (write_size is
\* kept) and signed where it is 64 bits wide (write_size becomes the
\* difference modulo 2^32, which the model writes as the negative difference).
ShrinkOutcomesZero(rem, ws) == {0}

ShrinkOutcomes(rem, ws) ==
    IF rem >= 0 THEN { IF rem < ws THEN rem ELSE ws } ELSE { ws, rem }

\* Lines 264-277: what follows a result that is neither DATA_READY nor FAIL.
Advance(r) ==
    /\ fw_img' = fw_img + write_size
    /\ IF r.ret = FW_IMG_STATUS_NODATA
       THEN \E ws \in ShrinkOutcomes(fw_img_end - fw_img', write_size) :
              /\ write_size' = ws
              /\ boot_state' = [r.bs EXCEPT !.fw_img_blocks = fw_img',
                                            !.fw_img_blocks_size = ws]
              /\ chunk' = <<fw_img', ws>>
       ELSE /\ boot_state' = r.bs
            /\ UNCHANGED <<write_size, chunk>>
    /\ pc' = "loop"
    /\ ret' = r.ret

\* A driver that does not forward a ready block.
DispatchWithoutWrite(r) ==
    IF r.ret = FW_IMG_STATUS_FAIL
    THEN /\ Return(BSP_STATUS_FAIL)
         /\ boot_state' = r.bs
         /\ UNCHANGED <<fw_img, write_size, chunk>>
    ELSE Advance(r)

\* A driver that moves on to the next chunk when a block is ready.
DispatchAdvancing(r) ==
    IF r.ret = FW_IMG_STATUS_DATA_READY
    THEN /\ pc' = "write"
         /\ ret' = r.ret
         /\ boot_state' = r.bs
         /\ fw_img' = fw_img + write_size
         /\ UNCHANGED <<write_size, chunk>>
    ELSE DispatchWithoutWrite(r)

\* Lines 246-262: what the driver does with the result of fw_img_process.
Dispatch(r) ==
    IF r.ret = FW_IMG_STATUS_DATA_READY
    THEN /\ pc' = "write"
         /\ ret' = r.ret
         /\ boot_state' = r.bs
         /\ UNCHANGED <<fw_img, write_size, chunk>>
    ELSE IF r.ret = FW_IMG_STATUS_FAIL
    THEN /\ Return(BSP_STATUS_FAIL)
         /\ boot_state' = r.bs
         /\ UNCHANGED <<fw_img, write_size, chunk>>
    ELSE Advance(r)

Process ==
    /\ pc = "loop"
    /\ fw_img < fw_img_end
    /\ LET r == fw_img_process(image.mem, image.data_blocks, boot_state, heap) IN
         /\ heap' = r.heap
         /\ trace' = Append(trace, [op |-> "process", chunk |-> chunk,
                                    from |-> boot_state.fw_img_blocks,
                                    to |-> r.bs.fw_img_blocks, ret |-> r.ret,
                                    overrun |-> r.overrun,
                                    block |-> [addr |-> r.bs.block_addr,
                                               size |-> r.bs.block_size,
                                               data |-> Contents(r.heap, r.bs.block_data,
                                                                 r.bs.block_size)]])
         /\ Dispatch(r)
    /\ UNCHANGED <<image, next_id, fw_img_end, attempts, outcomes,
                   driver_fw_info, current_halo_heartbeat, has_processed>>

\* A driver that goes on after a failed cs40l25_write_block.
AfterWriteUnchecked(r) == pc' = "loop" /\ ret' = r

\* Lines 250-257: cs40l25_write_block of the decoded block.
AfterWrite(r) ==
    IF r = CS40L25_STATUS_FAIL THEN Return(BSP_STATUS_FAIL)
    ELSE pc' = "loop" /\ ret' = r

\* A write that leaves out the last cell of the block.
WrittenDataShort(bs, h) == Contents(h, bs.block_data, bs.block_size - 1)

\* Lines 250-251: the data handed to cs40l25_write_block is block_size cells
\* of block_data.
WrittenData(bs, h) == Contents(h, bs.block_data, bs.block_size)

WriteBlock ==
    /\ pc = "write"
    /\ \E r \in {CS40L25_STATUS_OK, CS40L25_STATUS_FAIL} :
         /\ trace' = Append(trace, [op |-> "write_block", addr |-> boot_state.block_addr,
                                    data |-> WrittenData(boot_state, heap),
                                    ret |-> r])
         /\ AfterWrite(r)
    /\ UNCHANGED <<image, boot_state, heap, next_id, fw_img, fw_img_end, write_size,
                   chunk, attempts, outcomes,
                   driver_fw_info, current_halo_heartbeat, has_processed>>

\* The firmware descriptor cs40l25_boot is handed: boot_state.fw_info.
FwInfo(bs, h) ==
    [ img_format_rev |-> bs.img_format_rev,
      sym_table_size |-> bs.sym_table_size,
      alg_id_list_size |-> bs.alg_id_list_size,
      max_block_size |-> bs.max_block_size,
      sym_table |-> Contents(h, bs.sym_table, bs.sym_table_size),
      alg_id_list |-> Contents(h, bs.alg_id_list, bs.alg_id_list_size) ]

(***************************************************************************)
(* Lines 243 and 280-285: the loop ends when fw_img has reached            *)
(* fw_img_end; the descriptor goes to cs40l25_boot, whose status is the    *)
(* result of bsp_dut_boot.                                                 *)
(***************************************************************************)
LoopEnds == ~(fw_img < fw_img_end)

\* A boot that reports success whatever cs40l25_boot returned.
AfterCommitIgnored(r) == Return(BSP_STATUS_OK)

\* Lines 281-285: the status of cs40l25_boot is what bsp_dut_boot returns.
AfterCommit(r) == Return(r)

Commit ==
    /\ pc = "loop"
    /\ LoopEnds
    /\ \E r \in {CS40L25_STATUS_OK, CS40L25_STATUS_FAIL} :
         /\ trace' = Append(trace, [op |-> "boot", has_fw |-> TRUE,
                                    fw_info |-> FwInfo(boot_state, heap), ret |-> r])
         /\ AfterCommit(r)
         /\ driver_fw_info' \in DriverFwInfo(driver_fw_info, FwInfoAddr, r)
    /\ current_halo_heartbeat' = 0
    /\ UNCHANGED <<image, boot_state, heap, next_id, fw_img, fw_img_end, write_size,
                   chunk, attempts, outcomes, has_processed>>

Next == BootCall \/ FreePrevious \/ ReadHeader \/ AllocSymTable \/ AllocAlgIdList
        \/ AllocBlockData \/ Process \/ WriteBlock \/ Commit

Spec == Init /\ [][Next]_vars

\* bsp_dut_boot is sequential code and every call it makes returns: once
\* entered, its next step is taken.  Nothing obliges the caller to boot again.
BootStep == FreePrevious \/ ReadHeader \/ AllocSymTable \/ AllocAlgIdList
            \/ AllocBlockData \/ Process \/ WriteBlock \/ Commit

SpecLive == Spec /\ WF_vars(BootStep)

(***************************************************************************)
(* The other operations of the BSP: bsp_dut_reset, bsp_dut_has_processed   *)
(* and bsp_dut_update_haptic_config.  The code is single-threaded: an      *)
(* operation is called when no other is in progress.  trace then holds     *)
(* the one call made, with what it was given and what it returned.         *)
(***************************************************************************)
\* Largest heartbeat value the device reports.
MaxHeartbeat == 2
\* Largest config_index a caller passes (a uint8_t in the code).
MaxConfigIndex == 3

\* sizeof(cs40l25_haptic_configs) / sizeof(cs40l25_haptic_config_t).
NumHapticConfigs == 2

NoCallInProgress == pc \in {"idle", "returned"}

BspFrame ==
    UNCHANGED <<pc, image, boot_state, heap, next_id, fw_img, fw_img_end, write_size,
                ret, chunk, attempts, outcomes, driver_fw_info>>

\* Lines 138-152.
bsp_dut_reset ==
    /\ NoCallInProgress
    /\ \E r \in {CS40L25_STATUS_OK, CS40L25_STATUS_FAIL} :
         IF r # CS40L25_STATUS_OK
         THEN /\ trace' = <<[op |-> "reset", ret |-> BSP_STATUS_FAIL]>>
              /\ UNCHANGED current_halo_heartbeat
         ELSE /\ trace' = <<[op |-> "reset", ret |-> BSP_STATUS_OK]>>
              /\ current_halo_heartbeat' = 0
    /\ UNCHANGED has_processed
    /\ BspFrame

\* A heartbeat of zero that counts as processing.
ProcessedIgnoringZero(temp_hb, current) == ~(temp_hb = current)

\* Lines 416-423: what *has_processed is set to.
Processed(temp_hb, current) == ~((temp_hb = current) \/ (temp_hb = 0))

\* Lines 400-428.  arg_null: the caller passed has_processed == NULL;
\* temp_hb is what cs40l25_get_halo_heartbeat stored when it returned r.
bsp_dut_has_processed ==
    /\ NoCallInProgress
    /\ \E arg_null \in BOOLEAN, r \in {CS40L25_STATUS_OK, CS40L25_STATUS_FAIL},
          temp_hb \in 0..MaxHeartbeat :
         IF arg_null
         THEN /\ trace' = <<[op |-> "has_processed", arg_null |-> TRUE, read |-> FALSE,
                              hb_ret |-> r, temp_hb |-> temp_hb, ret |-> BSP_STATUS_FAIL]>>
              /\ UNCHANGED <<current_halo_heartbeat, has_processed>>
         ELSE IF r # CS40L25_STATUS_OK
         THEN /\ trace' = <<[op |-> "has_processed", arg_null |-> FALSE, read |-> TRUE,
                              hb_ret |-> r, temp_hb |-> temp_hb, ret |-> BSP_STATUS_FAIL]>>
              /\ UNCHANGED <<current_halo_heartbeat, has_processed>>
         ELSE /\ trace' = <<[op |-> "has_processed", arg_null |-> FALSE, read |-> TRUE,
                              hb_ret |-> r, temp_hb |-> temp_hb, ret |-> BSP_STATUS_OK]>>
              /\ has_processed' = Processed(temp_hb, current_halo_heartbeat)
              /\ current_halo_heartbeat' = temp_hb
    /\ BspFrame

\* Line 434: the index check.
IndexRejected(config_index) == config_index > NumHapticConfigs

\* Lines 430-449.  entry is the index of the table element whose address
\* goes to cs40l25_update_haptic_config.
bsp_dut_update_haptic_config ==
    /\ NoCallInProgress
    /\ \E config_index \in 0..MaxConfigIndex, r \in {CS40L25_STATUS_OK, CS40L25_STATUS_FAIL} :
         IF IndexRejected(config_index)
         THEN trace' = <<[op |-> "update_haptic_config", config_index |-> config_index,
                          passed |-> FALSE, entry |-> config_index,
                          ret |-> BSP_STATUS_FAIL]>>
         ELSE trace' = <<[op |-> "update_haptic_config", config_index |-> config_index,
                          passed |-> TRUE, entry |-> config_index,
                          ret |-> IF r = CS40L25_STATUS_OK THEN BSP_STATUS_OK
                                  ELSE BSP_STATUS_FAIL]>>
    /\ UNCHANGED <<current_halo_heartbeat, has_processed>>
    /\ BspFrame

\* The image the boots between the other operations load.
BspImages == { im \in WholeImages : im.rev = 2 /\ Len(im.syms) = 1 /\ Len(im.blocks) = 1
                                     /\ Len(im.blocks[1].data) = 1 }

BspBootCall == Boot(BspImages)

NextBsp == BspBootCall \/ FreePrevious \/ ReadHeader \/ AllocSymTable \/ AllocAlgIdList
           \/ AllocBlockData \/ Process \/ WriteBlock \/ Commit
           \/ bsp_dut_reset \/ bsp_dut_has_processed \/ bsp_dut_update_haptic_config

SpecBsp == Init /\ [][NextBsp]_vars

(***************************************************************************)
(* The container parser under a free-running chunk feeder: the image is    *)
(* handed over in consecutive chunks of any size from 1 to MaxFeed, the    *)
(* header is read with fw_img_read_header (again after each NODATA), the   *)
(* buffers are then sized as bsp_dut_boot sizes them, and every block      *)
(* reported ready is recorded in trace as it would be written.             *)
(***************************************************************************)
FeedImages == WholeImages \cup MalformedImages

FeedBuffers(bs) ==
    [bs EXCEPT !.sym_table = 1, !.alg_id_list = 2, !.block_data = 3,
               !.block_data_size = BlockDataSize(bs)]

FeedHeap(bs) ==
    Malloc(Malloc(Malloc(EmptyHeap, 1, bs.sym_table_size), 2, bs.alg_id_list_size),
           3, BlockDataSize(bs))

ReadyBlock(bs, h) ==
    [op |-> "write_block", addr |-> bs.block_addr,
     data |-> Contents(h, bs.block_data, bs.block_size), ret |-> CS40L25_STATUS_OK]

InitFeed ==
    /\ pc = "feed_more"
    /\ image \in FeedImages
    /\ boot_state = ZeroBootState
    /\ heap = EmptyHeap
    /\ next_id = 4
    /\ fw_img = 0
    /\ fw_img_end = image.size
    /\ write_size = 0
    /\ ret = FW_IMG_STATUS_NODATA
    /\ chunk = <<0, 0>>
    /\ attempts = 1
    /\ trace = <<>>
    /\ outcomes = <<>>
    /\ driver_fw_info = NULL
    /\ current_halo_heartbeat = 0
    /\ has_processed = FALSE

Min(a, b) == IF a < b THEN a ELSE b

FeedChunk ==
    /\ pc = "feed_more"
    /\ fw_img + write_size < fw_img_end
    /\ fw_img' = fw_img + write_size
    /\ \E n \in 1..Min(MaxFeed, fw_img_end - fw_img') :
         /\ write_size' = n
         /\ boot_state' = [boot_state EXCEPT !.fw_img_blocks = fw_img',
                                             !.fw_img_blocks_size = n]
         /\ chunk' = <<fw_img', n>>
    /\ pc' = IF boot_state.state \in {"preheader", "header"}
             THEN "feed_header" ELSE "feed_process"
    /\ UNCHANGED <<image, heap, next_id, fw_img_end, ret, attempts, trace, outcomes,
                   driver_fw_info, current_halo_heartbeat, has_processed>>

FeedReadHeader ==
    /\ pc = "feed_header"
    /\ LET r == fw_img_read_header(image.mem, boot_state) IN
         /\ ret' = r.ret
         /\ IF r.ret = FW_IMG_STATUS_OK
            THEN /\ boot_state' = FeedBuffers(r.bs)
                 /\ heap' = FeedHeap(r.bs)
                 /\ pc' = "feed_process"
            ELSE /\ boot_state' = r.bs
                 /\ heap' = heap
                 /\ pc' = IF r.ret = FW_IMG_STATUS_NODATA THEN "feed_more"
                          ELSE "feed_failed"
    /\ UNCHANGED <<image, next_id, fw_img, fw_img_end, write_size, chunk, attempts, trace, outcomes,
                   driver_fw_info, current_halo_heartbeat, has_processed>>

FeedProcess ==
    /\ pc = "feed_process"
    /\ LET r == fw_img_process(image.mem, image.data_blocks, boot_state, heap) IN
         /\ ret' = r.ret
         /\ boot_state' = r.bs
         /\ heap' = r.heap
         /\ trace' = IF r.ret = FW_IMG_STATUS_DATA_READY
                     THEN Append(trace, ReadyBlock(r.bs, r.heap)) ELSE trace
         /\ pc' = CASE r.ret = FW_IMG_STATUS_DATA_READY -> "feed_process"
                    [] r.ret = FW_IMG_STATUS_NODATA -> "feed_more"
                    [] r.ret = FW_IMG_STATUS_OK -> "feed_done"
                    [] OTHER -> "feed_failed"
    /\ UNCHANGED <<image, next_id, fw_img, fw_img_end, write_size, chunk, attempts, outcomes,
                   driver_fw_info, current_halo_heartbeat, has_processed>>

NextFeed == FeedChunk \/ FeedReadHeader \/ FeedProcess

SpecFeed == InitFeed /\ [][NextFeed]_vars

\* The whole image decoded as one chunk: the blocks reported ready, and the
\* final result.
RECURSIVE Drain(_, _, _, _, _)
Drain(m, nblk, bs, h, out) ==
    LET r == fw_img_process(m, nblk, bs, h) IN
    IF r.ret = FW_IMG_STATUS_DATA_READY
    THEN Drain(m, nblk, r.bs, r.heap, Append(out, ReadyBlock(r.bs, r.heap)))
    ELSE [out |-> out, ret |-> r.ret, fw_info |-> FwInfo(r.bs, r.heap)]

DecodeWhole(im) ==
    LET hd == fw_img_read_header(im.mem, [ZeroBootState EXCEPT !.fw_img_blocks = 0,
                                                               !.fw_img_blocks_size = im.size])
    IN  IF hd.ret # FW_IMG_STATUS_OK
        THEN [out |-> <<>>, ret |-> hd.ret, fw_info |-> FwInfo(hd.bs, EmptyHeap)]
        ELSE Drain(im.mem, im.data_blocks, FeedBuffers(hd.bs), FeedHeap(hd.bs), <<>>)

(***************************************************************************)
(* Reading the trace.                                                      *)
(***************************************************************************)
IsWrite(e) == e.op = "write_block"
IsCommit(e) == e.op = "boot" /\ e.has_fw
IsParse(e) == e.op \in {"read_header", "process"}
IsProcess(e) == e.op = "process"

\* The write_block calls of the current boot: <<address, payload>> in order.
Writes == LET w == SelectSeq(trace, IsWrite) IN
          [i \in 1..Len(w) |-> [addr |-> w[i].addr, data |-> w[i].data]]

Commits == SelectSeq(trace, IsCommit)

Results == SelectSeq(trace, IsProcess)

\* A collaborator call or a parser call of the current boot that failed.
IsError(e) ==
    \/ e.op = "boot" /\ e.ret # CS40L25_STATUS_OK
    \/ e.op = "read_header" /\ e.ret # FW_IMG_STATUS_OK
    \/ e.op = "malloc" /\ e.ptr = NULL
    \/ e.op = "process" /\ e.ret = FW_IMG_STATUS_FAIL
    \/ e.op = "write_block" /\ e.ret = CS40L25_STATUS_FAIL

\* Every chunk the driver hands over lies within the image: the image is at
\* least one standard chunk long.
ChunksInImage == image.size >= ChunkSize

\* The loop was left behind a NODATA: the parser asked for more and no cell
\* of the image was left.
ExhaustedOnNoData ==
    /\ Len(Results) > 0
    /\ Results[Len(Results)].ret = FW_IMG_STATUS_NODATA
    /\ LoopEnds

(***************************************************************************)
(* C1: when the parser reports NODATA for a chunk and no image cell is     *)
(* left behind that chunk, bsp_dut_boot returns an error, not success.     *)
(* (Stated for images of at least one standard chunk.)                     *)
(***************************************************************************)
C1_TruncationIsAnError ==
    (pc = "returned" /\ ChunksInImage /\ ExhaustedOnNoData) => ret # BSP_STATUS_OK

(***************************************************************************)
(* C2: cs40l25_boot is handed the firmware descriptor only after           *)
(* fw_img_process has reported that the image is done (FW_IMG_STATUS_OK).  *)
(* (Stated for images of at least one standard chunk.)                     *)
(***************************************************************************)
DoneBefore(i) ==
    \E j \in 1..(i - 1) : trace[j].op = "process" /\ trace[j].ret = FW_IMG_STATUS_OK

C2_CommitOnlyAfterDone ==
    ChunksInImage => \A i \in 1..Len(trace) : IsCommit(trace[i]) => DoneBefore(i)

(***************************************************************************)
(* C9: every chunk handed to the parser lies within the image, and a chunk *)
(* shorter than the standard chunk size is the last chunk of the image.    *)
(* (Stated for images that hold their whole container.)                    *)
(***************************************************************************)
ChunkWithinImage(c) ==
    /\ c[1] >= 0
    /\ c[1] + c[2] <= image.size
    /\ c[2] < ChunkSize => c[1] + c[2] = image.size

C9_ChunksWithinImage ==
    image.complete =>
        \A i \in 1..Len(trace) : IsParse(trace[i]) => ChunkWithinImage(trace[i].chunk)

\* No call to a collaborator (cs40l25_boot, bsp_malloc, cs40l25_write_block)
\* of the current boot has failed.
IsCollaboratorFailure(e) ==
    \/ e.op = "boot" /\ e.ret # CS40L25_STATUS_OK
    \/ e.op = "malloc" /\ e.ptr = NULL
    \/ e.op = "write_block" /\ e.ret = CS40L25_STATUS_FAIL

CollaboratorsSucceed == \A i \in 1..Len(trace) : ~IsCollaboratorFailure(trace[i])

(***************************************************************************)
(* C4: for a well-formed image (and collaborators that do not fail)        *)
(* bsp_dut_boot issues one cs40l25_write_block per block of the image, in  *)
(* image order, with the block's address and payload, then one             *)
(* cs40l25_boot with the descriptor that holds the image's symbol table    *)
(* and algorithm-ID list, and returns success.                             *)
(***************************************************************************)
C4_WellFormedBoot ==
    (pc = "returned" /\ WellFormed(image) /\ CollaboratorsSucceed) =>
        /\ ret = BSP_STATUS_OK
        /\ Writes = image.blocks
        /\ Len(Commits) = 1
        /\ IsCommit(trace[Len(trace)])
        /\ Commits[1].fw_info.sym_table = image.syms
        /\ Commits[1].fw_info.alg_id_list = image.algs

C4_Witness ==
    /\ pc = "returned" /\ WellFormed(image) /\ CollaboratorsSucceed
    /\ Len(image.blocks) = 2 /\ Len(Writes) = 2 /\ Len(image.syms) = 2
    /\ image.size > 2 * ChunkSize

(***************************************************************************)
(* C5: no block is reported ready and no cs40l25_write_block is issued     *)
(* before fw_img_read_header has succeeded and the symbol table, the       *)
(* algorithm-ID list and the block buffer have been allocated; while a     *)
(* block is ready the three buffers are live and sized from the header.    *)
(***************************************************************************)
AllocatedBefore(i, w) ==
    \E j \in 1..(i - 1) : trace[j].op = "malloc" /\ trace[j].what = w /\ trace[j].ptr # NULL

HeaderBefore(i) ==
    \E j \in 1..(i - 1) : trace[j].op = "read_header" /\ trace[j].ret = FW_IMG_STATUS_OK

IsBlockReady(e) == e.op = "process" /\ e.ret = FW_IMG_STATUS_DATA_READY

C5_NoBlockBeforeBuffers ==
    /\ \A i \in 1..Len(trace) :
         (IsBlockReady(trace[i]) \/ IsWrite(trace[i])) =>
            /\ HeaderBefore(i)
            /\ AllocatedBefore(i, "sym_table")
            /\ AllocatedBefore(i, "alg_id_list")
            /\ AllocatedBefore(i, "block_data")
    /\ pc = "write" =>
         /\ {boot_state.sym_table, boot_state.alg_id_list, boot_state.block_data}
                \subseteq DOMAIN heap
         /\ heap[boot_state.sym_table].size = boot_state.sym_table_size
         /\ heap[boot_state.alg_id_list].size = boot_state.alg_id_list_size
         /\ boot_state.block_data_size = BlockDataSize(boot_state)

C5_Witness == pc = "write" /\ Len(Writes) = 1

(***************************************************************************)
(* C6: a block whose declared length exceeds the capacity of the block     *)
(* buffer makes fw_img_process fail and bsp_dut_boot return an error, and  *)
(* fw_img_process never stores a cell outside the buffer it fills.         *)
(***************************************************************************)
BlockTooLarge ==
    /\ Len(Results) > 0
    /\ boot_state.state = "block_hdr" /\ boot_state.count = 2
    /\ boot_state.block_size > boot_state.block_data_size

C6_NoOverrun ==
    /\ \A i \in 1..Len(trace) : IsProcess(trace[i]) => ~trace[i].overrun
    /\ BlockTooLarge =>
         /\ pc = "returned" /\ ret = BSP_STATUS_FAIL
         /\ trace[Len(trace)].op = "process"
         /\ trace[Len(trace)].ret = FW_IMG_STATUS_FAIL

C6_Witness == BlockTooLarge /\ pc = "returned" /\ Len(Writes) = 1

(***************************************************************************)
(* C7: over any sequence of boots, failed at any step or not, nothing is   *)
(* leaked and nothing is freed twice: every live buffer is held by         *)
(* boot_state, every pointer boot_state holds is live, every bsp_free is   *)
(* of a live buffer, once a boot has passed its cleanup only the buffers   *)
(* it allocated itself are live, and a boot of a well-formed image that    *)
(* follows a failed boot succeeds (its collaborators not failing).         *)
(***************************************************************************)
Held(bs) == {bs.sym_table, bs.alg_id_list, bs.block_data} \ {NULL}

AllocatedNow ==
    { trace[i].ptr : i \in { j \in 1..Len(trace) : trace[j].op = "malloc" } } \ {NULL}

PastCleanup ==
    /\ pc \notin {"idle", "free"}
    /\ Len(trace) > 0
    /\ trace[1].ret = CS40L25_STATUS_OK

FailedBefore == Len(outcomes) > 0 /\ outcomes[Len(outcomes)] # BSP_STATUS_OK

C7_NoLeakNoDoubleFree ==
    /\ DOMAIN heap = Held(boot_state)
    /\ \A i \in 1..Len(trace) : trace[i].op = "free" => trace[i].live
    /\ PastCleanup => DOMAIN heap = AllocatedNow
    /\ (pc = "returned" /\ FailedBefore /\ WellFormed(image) /\ CollaboratorsSucceed)
           => ret = BSP_STATUS_OK

C7_Witness ==
    /\ pc = "returned" /\ FailedBefore /\ WellFormed(image) /\ CollaboratorsSucceed
    /\ Cardinality({ i \in 1..Len(trace) : trace[i].op = "free" }) = 3
    /\ Cardinality(DOMAIN heap) = 3

(***************************************************************************)
(* C8: the first failure of a boot (cs40l25_boot, fw_img_read_header,      *)
(* bsp_malloc, fw_img_process, cs40l25_write_block) is its last call: no   *)
(* call follows it and bsp_dut_boot has returned an error.                 *)
(***************************************************************************)
C8_FirstErrorIsTerminal ==
    \A i \in 1..Len(trace) :
        IsError(trace[i]) => (i = Len(trace) /\ pc = "returned" /\ ret # BSP_STATUS_OK)

C8_Witness ==
    /\ pc = "returned" /\ Len(Writes) = 2
    /\ trace[Len(trace)].op = "write_block"
    /\ trace[Len(trace)].ret = CS40L25_STATUS_FAIL

(***************************************************************************)
(* C3: however the image is cut into chunks (1 to MaxFeed cells each), the *)
(* blocks the parser reports ready, in order, are those it reports when    *)
(* the whole image is one chunk; so are its final result and the           *)
(* descriptor it has filled, and it asks for more input only while image   *)
(* cells are left.                                                         *)
(***************************************************************************)
IsPrefix(a, b) == Len(a) <= Len(b) /\ SubSeq(b, 1, Len(a)) = a

C3_ChunkingDoesNotMatter ==
    LET whole == DecodeWhole(image) IN
    /\ IsPrefix(trace, whole.out)
    /\ pc = "feed_done" =>
         /\ trace = whole.out
         /\ whole.ret = FW_IMG_STATUS_OK
         /\ FwInfo(boot_state, heap) = whole.fw_info
    /\ pc = "feed_failed" =>
         /\ trace = whole.out
         /\ whole.ret = FW_IMG_STATUS_FAIL
    /\ (pc = "feed_more" /\ whole.ret # FW_IMG_STATUS_NODATA) =>
         fw_img + write_size < fw_img_end

C3_Witness ==
    /\ pc = "feed_done" /\ WellFormed(image)
    /\ Len(trace) = 2 /\ Len(image.syms) = 2
    /\ write_size = 1

(***************************************************************************)
(* C10: the parser never reads past the end of the current chunk; it       *)
(* reports NODATA only when it has used up the chunk, and it takes up the  *)
(* structure it was reading where it left it: the cells it has consumed    *)
(* are exactly those in front of its place in the container.               *)
(***************************************************************************)
RECURSIVE BlocksLen(_, _)
BlocksLen(bl, n) == IF n = 0 THEN 0 ELSE BlocksLen(bl, n - 1) + 2 + Len(bl[n].data)

\* The offset in the container of the parser's place (state, count,
\* blocks_done), from the layout of the image.
Place(bs, im) ==
    LET hdr == 1 + HeaderFields(im.rev)
        tables == hdr + Len(im.syms) + Len(im.algs)
        blocks == tables + BlocksLen(im.blocks, bs.blocks_done)
    IN  CASE bs.state = "preheader" -> 0
          [] bs.state = "header" -> 1 + bs.count
          [] bs.state = "symbols" -> hdr + bs.count
          [] bs.state = "algs" -> hdr + Len(im.syms) + bs.count
          [] bs.state = "block_hdr" -> blocks + bs.count
          [] bs.state = "block_data" -> blocks + 2 + bs.count
          [] OTHER -> blocks

C10_ParserStaysInChunk ==
    boot_state.fw_img_blocks # NULL =>
        /\ chunk[1] <= boot_state.fw_img_blocks
        /\ boot_state.fw_img_blocks <= chunk[1] + chunk[2]
        /\ pc = "feed_more" => boot_state.fw_img_blocks = chunk[1] + chunk[2]
        /\ pc # "feed_failed" => boot_state.fw_img_blocks = Place(boot_state, image)

C10_Witness ==
    /\ pc = "feed_process"
    /\ boot_state.state = "block_data" /\ boot_state.count = 1
    /\ boot_state.fw_img_blocks = chunk[1]
    /\ boot_state.fw_img_blocks_end = NULL

(***************************************************************************)
(* C11: when cs40l25_boot rejects the descriptor bsp_dut_boot returns an   *)
(* error, and the commit is the last call of the boot: no fw_img_process   *)
(* and no cs40l25_write_block follows it.                                   *)
(***************************************************************************)
C11_CommitIsLast ==
    \A i \in 1..Len(trace) :
        IsCommit(trace[i]) =>
            /\ i = Len(trace)
            /\ pc = "returned"
            /\ ret = trace[i].ret
            /\ trace[i].ret # CS40L25_STATUS_OK => ret # BSP_STATUS_OK

C11_Witness ==
    /\ pc = "returned" /\ ret # BSP_STATUS_OK
    /\ Len(Commits) = 1 /\ Commits[1].ret = CS40L25_STATUS_FAIL
    /\ Len(Writes) = 2

(***************************************************************************)
(* C12: once fw_img_process has returned FW_IMG_STATUS_OK (Done) the loop  *)
(* is left: the boot makes no further fw_img_process call and goes on to   *)
(* the commit, however much of the image lies behind the current chunk.    *)
(***************************************************************************)
IsDone(e) == IsProcess(e) /\ e.ret = FW_IMG_STATUS_OK

C12_DoneLeavesLoop ==
    /\ \A i \in 1..Len(trace) :
           IsDone(trace[i]) => \A j \in (i + 1)..Len(trace) : ~IsProcess(trace[j])
    /\ (pc = "loop" /\ trace # <<>> /\ IsDone(trace[Len(trace)])) => LoopEnds

(***************************************************************************)
(* C13 as stated: every boot, whatever its outcome, first runs the cleanup *)
(* (the three buffers of the previous boot freed, boot_state zeroed)       *)
(* before it does anything else and before it returns.                     *)
(***************************************************************************)
IsCleanup(e) == e.op \in {"free", "memset"}
IsReset(e) == e.op = "memset"

C13_CleanupFirst ==
    /\ trace # <<>> => IsCleanup(trace[1])
    /\ pc = "returned" => \E i \in 1..Len(trace) : IsReset(trace[i])

(***************************************************************************)
(* C13 amended: every boot first calls cs40l25_boot with a NULL fw_info.   *)
(* When that call fails the boot returns at once, without cleanup.  When   *)
(* it succeeds the cleanup follows directly: nothing but the frees lies    *)
(* between the call and the memset, and when the header is about to be     *)
(* read no buffer of the previous boot is allocated and boot_state is zero *)
(* but for the first chunk.                                                *)
(***************************************************************************)
C13_CleanupAfterNotification ==
    trace # <<>> =>
        /\ trace[1].op = "boot" /\ ~trace[1].has_fw
        /\ trace[1].ret # CS40L25_STATUS_OK =>
               Len(trace) = 1 /\ pc = "returned" /\ ret = trace[1].ret
        /\ (trace[1].ret = CS40L25_STATUS_OK /\ pc # "free") =>
               \E i \in 2..Len(trace) :
                   /\ IsReset(trace[i])
                   /\ \A j \in 2..(i - 1) : trace[j].op = "free"
                   /\ \A j \in (i + 1)..Len(trace) : ~IsCleanup(trace[j])
        /\ pc = "header" =>
               /\ heap = EmptyHeap
               /\ boot_state = [ZeroBootState EXCEPT !.fw_img_blocks = fw_img,
                                                     !.fw_img_blocks_size = write_size]

C13_Witness ==
    /\ pc = "header" /\ attempts = 2
    /\ Len(trace) = 5 /\ IsReset(trace[5])
    /\ \A j \in 2..4 : trace[j].op = "free" /\ trace[j].live

(***************************************************************************)
(* C14: the chunks handed to the parser are contiguous and in image order: *)
(* the chunk that follows a NODATA starts where the chunk before it ended  *)
(* and is as long as the standard chunk or, if less is left, as what is    *)
(* left of the image; the parser is otherwise called with the chunk it had *)
(* before; and the chunks of a boot that succeeds cover the image exactly, *)
(* from its first cell to its last.                                        *)
(* (Stated for images that hold their whole container.)                    *)
(***************************************************************************)
Parses == SelectSeq(trace, IsParse)

NextChunkOf(c) ==
    LET start == c[1] + c[2]
        left == image.size - start
    IN  <<start, IF left < ChunkSize THEN left ELSE ChunkSize>>

C14_ChunksCoverImage ==
    image.complete =>
        /\ \A k \in 1..(Len(Parses) - 1) :
               IF Parses[k].ret = FW_IMG_STATUS_NODATA
               THEN Parses[k + 1].chunk = NextChunkOf(Parses[k].chunk)
               ELSE Parses[k + 1].chunk = Parses[k].chunk
        /\ Parses # <<>> => Parses[1].chunk[1] = 0
        /\ (pc = "returned" /\ ret = BSP_STATUS_OK /\ Commits # <<>>) =>
               LET last == Parses[Len(Parses)].chunk
               IN  last[1] + last[2] = image.size

(***************************************************************************)
(* C15: the step that finds a block ready and the cs40l25_write_block call *)
(* that follows leave the image offset, the chunk and the chunk size as    *)
(* they were; the write changes nothing of boot_state, and when it         *)
(* succeeds the loop goes on with the same chunk: its condition still      *)
(* holds, so fw_img_process is called again.                               *)
(***************************************************************************)
BlockReadyStep == pc = "loop" /\ pc' = "write"
WriteStep == pc = "write"

C15_SameChunkAfterWrite ==
    [][ (BlockReadyStep \/ WriteStep) =>
            /\ fw_img' = fw_img
            /\ write_size' = write_size
            /\ chunk' = chunk
            /\ boot_state'.fw_img_blocks_size = boot_state.fw_img_blocks_size
            /\ WriteStep =>
                   /\ boot_state' = boot_state
                   /\ pc' \in {"loop", "returned"}
                   /\ pc' = "loop" <=> trace'[Len(trace')].ret = CS40L25_STATUS_OK
                   /\ pc' = "loop" => (fw_img' < fw_img_end' /\ heap' = heap)
      ]_vars

C15_Witness ==
    /\ pc = "loop"
    /\ IsWrite(trace[Len(trace)]) /\ trace[Len(trace)].ret = CS40L25_STATUS_OK
    /\ fw_img = ChunkSize /\ chunk = <<fw_img, write_size>>

(***************************************************************************)
(* C16: every FW_IMG_STATUS_DATA_READY is followed, before the next call   *)
(* of fw_img_process, by exactly one cs40l25_write_block call, made with   *)
(* the address, the length and the buffer contents of the block that was   *)
(* reported; no write is made without a block reported just before it, so  *)
(* no block is decoded over one that is still unwritten and no two writes  *)
(* follow one another.                                                     *)
(***************************************************************************)
C16_OneWritePerBlock ==
    /\ \A i \in 1..Len(trace) :
           /\ IsBlockReady(trace[i]) =>
                  IF i = Len(trace) THEN pc = "write"
                  ELSE /\ IsWrite(trace[i + 1])
                       /\ trace[i + 1].addr = trace[i].block.addr
                       /\ trace[i + 1].data = trace[i].block.data
                       /\ Len(trace[i + 1].data) = trace[i].block.size
           /\ IsWrite(trace[i]) => (i > 1 /\ IsBlockReady(trace[i - 1]))
    /\ pc = "write" => (trace # <<>> /\ IsBlockReady(trace[Len(trace)]))

C16_Witness ==
    /\ pc = "loop" /\ Len(Writes) = 2
    /\ Writes[1].data # Writes[2].data
    /\ Cardinality({ i \in 1..Len(trace) : IsBlockReady(trace[i]) }) = 2

(***************************************************************************)
(* C17: no buffer is allocated before fw_img_read_header has succeeded.    *)
(* Until then the three pointers are NULL and nothing is allocated; when   *)
(* fw_img_read_header fails the boot returns BSP_STATUS_FAIL in that       *)
(* state.  The block buffer is allocated at most once in a boot, and       *)
(* exactly once in a boot that reaches the loop.                           *)
(***************************************************************************)
IsMalloc(e) == e.op = "malloc"
IsHeaderFailure(e) == e.op = "read_header" /\ e.ret # FW_IMG_STATUS_OK
BlockDataMallocs == { i \in 1..Len(trace) : IsMalloc(trace[i]) /\ trace[i].what = "block_data" }
InLoop == pc \in {"loop", "write"} \/ \E i \in 1..Len(trace) : IsProcess(trace[i])

C17_BuffersAfterHeader ==
    /\ \A i \in 1..Len(trace) :
           /\ IsMalloc(trace[i]) => HeaderBefore(i)
           /\ IsHeaderFailure(trace[i]) =>
                  /\ i = Len(trace)
                  /\ pc = "returned" /\ ret = BSP_STATUS_FAIL
    /\ (PastCleanup /\ ~HeaderBefore(Len(trace) + 1)) =>
           /\ heap = EmptyHeap
           /\ Held(boot_state) = {}
    /\ Cardinality(BlockDataMallocs) <= 1
    /\ InLoop => \E i \in BlockDataMallocs : trace[i].ptr # NULL

C17_Witness ==
    /\ pc = "returned" /\ ret = BSP_STATUS_FAIL /\ attempts = 2
    /\ IsHeaderFailure(trace[Len(trace)])
    /\ Cardinality({ i \in 1..Len(trace) : trace[i].op = "free" }) = 3
    /\ heap = EmptyHeap

(***************************************************************************)
(* C18: the sizes of the three allocations are those of the decoded        *)
(* header: sym_table_size entries for the symbol table, alg_id_list_size   *)
(* entries for the algorithm id list, and for the block buffer 4140 when   *)
(* the format revision is 1 and max_block_size when it is 2 or more.  For  *)
(* a well-formed image these are the sizes the container was built with.   *)
(***************************************************************************)
HeaderSize(bs, what) ==
    CASE what = "sym_table" -> bs.sym_table_size
      [] what = "alg_id_list" -> bs.alg_id_list_size
      [] what = "block_data" -> IF bs.img_format_rev >= 2 THEN bs.max_block_size ELSE 4140

ImageSize(im, what) ==
    CASE what = "sym_table" -> Len(im.syms)
      [] what = "alg_id_list" -> Len(im.algs)
      [] what = "block_data" -> IF im.rev >= 2 THEN MaxBlockSize ELSE 4140

C18_SizesFromHeader ==
    \A i \in 1..Len(trace) :
        IsMalloc(trace[i]) =>
            /\ boot_state.img_format_rev >= 1
            /\ trace[i].size = HeaderSize(boot_state, trace[i].what)
            /\ trace[i].ptr \in DOMAIN heap =>
                   heap[trace[i].ptr].size = HeaderSize(boot_state, trace[i].what)
            /\ trace[i].what = "block_data" =>
                   boot_state.block_data_size = HeaderSize(boot_state, "block_data")
            /\ WellFormed(image) => trace[i].size = ImageSize(image, trace[i].what)

C18_Witness ==
    /\ pc = "loop" /\ image.rev = 1 /\ WellFormed(image)
    /\ Held(boot_state) = {boot_state.sym_table, boot_state.alg_id_list, boot_state.block_data}
    /\ Cardinality(Held(boot_state)) = 3
    /\ heap[boot_state.sym_table].size = 2
    /\ heap[boot_state.alg_id_list].size = 1
    /\ heap[boot_state.block_data].size = 4140

(***************************************************************************)
(* C19: returning from bsp_dut_boot releases nothing.  The step that       *)
(* returns, with success or with an error, leaves every allocated buffer   *)
(* allocated, those of this boot included, and boot_state holds them;      *)
(* while the boot has returned, and through the entry of the next boot up  *)
(* to its cleanup, the heap and boot_state keep their values.              *)
(***************************************************************************)
Returns == pc # "returned" /\ pc' = "returned"

C19_BuffersOutliveBoot ==
    [][ /\ Returns =>
              /\ DOMAIN heap \subseteq DOMAIN heap'
              /\ AllocatedNow' \subseteq DOMAIN heap'
              /\ DOMAIN heap' = Held(boot_state')
              /\ Held(boot_state) \subseteq Held(boot_state')
              /\ (pc = "write" \/ (pc = "loop" /\ LoopEnds)) => boot_state' = boot_state
        /\ (pc = "returned" \/ pc' = "free") =>
              /\ heap' = heap
              /\ boot_state' = boot_state
      ]_vars

C19_Witness ==
    /\ pc = "returned" /\ ret # BSP_STATUS_OK
    /\ IsWrite(trace[Len(trace)])
    /\ Cardinality(AllocatedNow) = 3 /\ AllocatedNow = DOMAIN heap
    /\ outcomes = <<BSP_STATUS_OK>>

(***************************************************************************)
(* C20: every boot that is entered returns.  Each pass of the loop in      *)
(* which no block is ready either returns or moves the image offset        *)
(* forward by the chunk size, which is greater than zero.                  *)
(***************************************************************************)
InBoot == pc \notin {"idle", "returned"}
PassWithoutBlock == pc = "loop" /\ pc' \notin {"write", "returned"}

C20_BootTerminates ==
    /\ [][ PassWithoutBlock =>
               /\ write_size > 0
               /\ fw_img' = fw_img + write_size
               /\ fw_img' > fw_img
               /\ fw_img_end' = fw_img_end ]_vars
    /\ InBoot ~> pc = "returned"

C20_Witness ==
    /\ pc = "loop" /\ fw_img = 2 * ChunkSize /\ fw_img < fw_img_end
    /\ write_size > 0 /\ write_size < ChunkSize
    /\ chunk = <<fw_img, write_size>>

(***************************************************************************)
(* C21: cs40l25_driver never holds the descriptor while a buffer of the    *)
(* descriptor is freed.  Every boot begins with cs40l25_boot(NULL); the    *)
(* buffers of the previous boot are freed, and boot_state zeroed, only     *)
(* after that call has succeeded and the driver holds no descriptor; when  *)
(* the call fails the boot returns and has freed and changed nothing.      *)
(***************************************************************************)
DescriptorLive ==
    driver_fw_info = FwInfoAddr =>
        /\ boot_state.sym_table \in DOMAIN heap
        /\ boot_state.alg_id_list \in DOMAIN heap

IsNotify(e) == e.op = "boot" /\ ~e.has_fw
CleanupStep == pc = "free"
NotifyFails == pc \in {"idle", "returned"} /\ pc' = "returned"

C21_NoFreedDescriptorHeld ==
    [][ /\ DescriptorLive'
        /\ IsNotify(trace'[1])
        /\ (CleanupStep \/ ~(DOMAIN heap \subseteq DOMAIN heap')) =>
               /\ driver_fw_info = NULL
               /\ IsNotify(trace[Len(trace)]) /\ trace[Len(trace)].ret = CS40L25_STATUS_OK
        /\ NotifyFails =>
               /\ trace'[1].ret # CS40L25_STATUS_OK
               /\ heap' = heap
               /\ boot_state' = boot_state
               /\ ret' # BSP_STATUS_OK
      ]_vars

C21_Witness ==
    /\ pc = "returned" /\ attempts = 2
    /\ Len(trace) = 1 /\ IsNotify(trace[1]) /\ trace[1].ret = CS40L25_STATUS_FAIL
    /\ driver_fw_info = FwInfoAddr
    /\ Cardinality(DOMAIN heap) = 3
    /\ DescriptorLive

(***************************************************************************)
(* C22: bsp_dut_update_haptic_config reads no element outside              *)
(* cs40l25_haptic_configs: a config_index that is not an index of the      *)
(* table (config_index >= number of entries) is answered with              *)
(* BSP_STATUS_FAIL and no table element goes to the driver.                *)
(***************************************************************************)
IsHapticUpdate(e) == e.op = "update_haptic_config"

C22_IndexInTable ==
    \A i \in 1..Len(trace) :
        IsHapticUpdate(trace[i]) =>
            /\ trace[i].passed => trace[i].entry < NumHapticConfigs
            /\ trace[i].config_index >= NumHapticConfigs =>
                   (~trace[i].passed /\ trace[i].ret = BSP_STATUS_FAIL)

(***************************************************************************)
(* C23: a call of bsp_dut_has_processed that succeeds sets *has_processed  *)
(* to TRUE exactly when the heartbeat it read is not zero and differs from *)
(* current_halo_heartbeat, and then records the heartbeat read there.  A   *)
(* call that fails (NULL argument, or the heartbeat could not be read)     *)
(* changes neither.  current_halo_heartbeat is otherwise changed only by   *)
(* a bsp_dut_reset that succeeds and by a boot that reaches the commit,    *)
(* which both set it to 0; *has_processed is changed by nothing else.      *)
(***************************************************************************)
HasProcessedStep ==
    NoCallInProgress /\ trace' # <<>> /\ trace'[1].op = "has_processed"
ResetStep == NoCallInProgress /\ trace' # <<>> /\ trace'[1].op = "reset"
CommitStep == pc = "loop" /\ LoopEnds /\ pc' = "returned"

C23_HeartbeatChanged ==
    [][ /\ HasProcessedStep =>
               LET e == trace'[1] IN
               /\ e.ret = BSP_STATUS_OK <=> (~e.arg_null /\ e.hb_ret = CS40L25_STATUS_OK)
               /\ e.ret = BSP_STATUS_OK =>
                      /\ has_processed' = (e.temp_hb # 0 /\ e.temp_hb # current_halo_heartbeat)
                      /\ current_halo_heartbeat' = e.temp_hb
               /\ e.ret # BSP_STATUS_OK =>
                      /\ e.ret = BSP_STATUS_FAIL
                      /\ has_processed' = has_processed
                      /\ current_halo_heartbeat' = current_halo_heartbeat
        /\ ResetStep =>
               current_halo_heartbeat' = IF trace'[1].ret = BSP_STATUS_OK THEN 0
                                         ELSE current_halo_heartbeat
        /\ CommitStep => current_halo_heartbeat' = 0
        /\ ~HasProcessedStep => has_processed' = has_processed
        /\ ~(HasProcessedStep \/ ResetStep \/ CommitStep) =>
               current_halo_heartbeat' = current_halo_heartbeat
      ]_vars

C23_Witness ==
    /\ pc = "returned" /\ driver_fw_info = FwInfoAddr
    /\ trace # <<>> /\ trace[1].op = "has_processed" /\ trace[1].ret = BSP_STATUS_OK
    /\ trace[1].temp_hb = MaxHeartbeat
    /\ current_halo_heartbeat = MaxHeartbeat
    /\ has_processed
====
